---- MODULE Spec2Model ----
(***************************************************************************)
(* The admin front end's HTTP client (HttpService) with its token-refresh  *)
(* coordinator, and the parts of the admin auth store that the client      *)
(* drives.  One action is one browser task: the handling of one HTTP       *)
(* response (or of one user call) together with every promise continuation *)
(* (microtask) it schedules, run to completion in the order the event loop *)
(* runs them.                                                              *)
(***************************************************************************)
EXTENDS Integers, Sequences, FiniteSets, TLC

\* ---------------------------------------------------------------- bounds
NumReqs == 3        \* original requests outstanding at once (request slots)
NumIds  == 2        \* ids of subjects, of question banks and of questions

\* ------------------------------------------------------------ JS values
Null         == 0       \* null: getItem of an absent key, a cleared ref
Undefined    == -1      \* a field missing from a response body
EmptyStr     == -2      \* the empty string ''
StrUndefined == -3      \* the string 'undefined' (String(undefined))
TheUser      == 1       \* the user object /auth/me answers with

BadRequest   == 400
Unauthorized == 401
Forbidden    == 403
NotFound     == 404
ServerError  == 500
BadGateway   == 502     \* a status handleError's switch has no case for
NetworkError == 0       \* no response at all (error.response undefined)
OkStatus     == 200

Reqs    == 1..NumReqs
\* token values are opaque to the client, which only copies them and tests
\* their truthiness: two of them tell an old token from a new one
Tokens  == {1, 2}
\* a failedQueue entry stands for the request whose continuation waits on it:
\* r > 0 is original request r, -o is the refresh call issued on behalf of o
Entries == Reqs \cup {-r : r \in Reqs}
Urls    == {"api", "login"}

\* JavaScript truthiness of a string | null | undefined
Truthy(v) == v \in Tokens \/ v = StrUndefined
\* String(v): what localStorage.setItem and a template literal store
String(v) == IF v = Undefined THEN StrUndefined ELSE v

VARIABLES
  isRefreshing,   \* HttpService.isRefreshing
  failedQueue,    \* HttpService.failedQueue, a sequence of Entries
  localStorage,   \* [token, refresh_token], Null when the key is absent
  token,          \* auth store: token ref
  user,           \* auth store: user ref
  loading,        \* auth store: loading ref
  caller,         \* per original request: whose await its promise settles
  phase,          \* per original request: where its promise stands
  url,            \* per original request: which endpoint it targets
  retry,          \* per original request: config._retry
  refreshOf,      \* per original request: the refresh call issued for it
  enqAt,          \* history: enqueue stamp of each entry's deferred
  joined,         \* history: the request has entered the refresh flow
  events,         \* history: what the last task did, in order
  returned,       \* history: the token pair the last login call answered with
  dialog,         \* upload dialogs: which of the three components is open
  uploadForm,     \* upload dialogs: [name, file] of the reactive uploadForm
  fileList,       \* upload dialogs: the files el-upload lists
  uploading,      \* upload dialogs: the uploading / uploadLoading ref
  posted,         \* history: extensions of the files sent to the endpoint
  subjects,       \* backend: the ids of the stored subjects
  bankSubject,    \* backend: per question bank its subject_id, 0 if not stored
  questionSubject,\* backend: per question its subject_id, 0 if not stored
  response,       \* backend: the answer to the last subject request
  currentRoute,   \* admin router: the path of router.currentRoute
  pendingLocation,\* admin router: the target awaiting its lazy components
  navigation,     \* history: what the last router.push asked for and met
  accessKey,      \* access-key store: accessKey ref
  authenticated,  \* access-key store: isAuthenticated ref
  storedKey,      \* access-key front end: localStorage 'access_key'
  calls,          \* access-key client: per call its kind, argument, header
  trace,          \* history: what the last task of the front end did
  keyless,        \* history: a 401 removed the key, none was stored since
  messages,       \* AI chat view: messages ref, <<role, content>> each
  inputMessage,   \* AI chat view: inputMessage ref
  isLoading,      \* AI chat view: isLoading ref
  awaiting,       \* AI chat view: sendMessage calls suspended at their
                  \* first await, each with its currentInput
  chatRequests,   \* AI chat view: the chat requests in flight
  lastCall        \* history: how the last sendMessage call began

httpVars == <<isRefreshing, failedQueue, localStorage, token, user, loading,
              caller, phase, url, retry, refreshOf, enqAt, joined, events,
              returned>>
uploadVars == <<dialog, uploadForm, fileList, uploading, posted>>

dbVars == <<subjects, bankSubject, questionSubject, response>>

routerVars == <<currentRoute, pendingLocation, navigation>>

keyVars == <<accessKey, authenticated, storedKey, calls, trace, keyless>>

chatVars == <<messages, inputMessage, isLoading, awaiting, chatRequests,
              lastCall>>

vars == <<httpVars, uploadVars, dbVars, routerVars, keyVars, chatVars>>

\* the working state a task's code runs on; micro is the microtask queue
St ==
  [isRefreshing |-> isRefreshing, failedQueue |-> failedQueue,
   localStorage |-> localStorage, token |-> token, user |-> user,
   loading |-> loading, caller |-> caller,
   phase |-> phase, url |-> url, retry |-> retry, refreshOf |-> refreshOf,
   enqAt |-> enqAt, joined |-> joined, events |-> events,
   returned |-> returned,
   micro |-> <<>>]

CommitHttp(s) ==
  /\ isRefreshing' = s.isRefreshing
  /\ failedQueue'  = s.failedQueue
  /\ localStorage' = s.localStorage
  /\ token'        = s.token
  /\ user'         = s.user
  /\ loading'      = s.loading
  /\ caller'       = s.caller
  /\ phase'        = s.phase
  /\ url'          = s.url
  /\ retry'        = s.retry
  /\ refreshOf'    = s.refreshOf
  /\ enqAt'        = s.enqAt
  /\ joined'       = s.joined
  /\ events'       = s.events
  /\ returned'     = s.returned

Commit(s) == CommitHttp(s) /\ UNCHANGED <<uploadVars, dbVars, routerVars, keyVars, chatVars>>

Log(s, e)   == [s EXCEPT !.events = Append(@, e)]
Defer(s, m) == [s EXCEPT !.micro = Append(@, m)]

\* an entry's deferred is still unsettled
Pending(s, e) ==
  IF e > 0 THEN s.phase[e] = "queued" ELSE s.refreshOf[-e] = "queued"

\* a task starts: a fresh event list, stamps of settled deferreds forgotten
Begin(s, e) ==
  [s EXCEPT !.events = <<e>>,
            !.enqAt = [x \in Entries |-> IF Pending(s, x) THEN @[x] ELSE 0]]

\* ------------------------------------------------- HttpService: storage
getToken(s)        == s.localStorage.token
getRefreshToken(s) == s.localStorage.refresh_token

setToken(s, t) ==
  Log([s EXCEPT !.localStorage.token = String(t)], <<"setToken", 0, String(t)>>)

setRefreshToken(s, t) ==
  Log([s EXCEPT !.localStorage.refresh_token = String(t)],
      <<"setRefreshToken", 0, String(t)>>)

\* clearToken that removes only the 'token' key
clearToken_onlyAccess(s) ==
  Log([s EXCEPT !.localStorage.token = Null], <<"clearToken", 0, 0>>)

clearToken(s) ==
  Log([s EXCEPT !.localStorage = [token |-> Null, refresh_token |-> Null]],
      <<"clearToken", 0, 0>>)

\* ------------------------------------------------------- the auth store
\* the computed isAuthenticated: !!token.value
isAuthenticated == Truthy(token)

clearAuth(s) == [clearToken(s) EXCEPT !.token = Null, !.user = Null]

logout(s) == Log(clearAuth(s), <<"ElMessage.success", 0, 0>>)

\* ------------------------------------------------ HttpService: requests
\* the request interceptor: the Authorization bearer the request leaves with,
\* hdr being the bearer already on the config (Null when it has none)
requestInterceptor(s, hdr) == IF Truthy(getToken(s)) THEN getToken(s) ELSE hdr

\* axiosInstance(config) for original request r
request(s, r, hdr) ==
  Log([s EXCEPT !.phase[r] = "inflight"], <<"send", r, requestInterceptor(s, hdr)>>)

\* axiosInstance.post('/api/v1/auth/refresh', ...) on behalf of request o
postRefresh(s, o, hdr) ==
  Log([s EXCEPT !.refreshOf[o] = "inflight"],
      <<"sendRefresh", o, requestInterceptor(s, hdr)>>)

\* axiosInstance(originalRequest) for the request behind a queue entry
resend(s, e, hdr) == IF e > 0 THEN request(s, e, hdr) ELSE postRefresh(s, -e, hdr)

\* the promise of entry e rejects / resolves: its awaiter runs as a microtask
reject(s, e)         == Defer(s, <<"rejected", e, 0, 0>>)
resolve(s, e, a, nr) == Defer(s, <<"resolved", e, a, nr>>)

\* every branch of handleError's switch shows one error message
handleError(s, st) == Log(s, <<"ElMessage.error", 0, st>>)

handleAuthError(s) ==
  LET s1 == clearToken(s)
      s2 == logout(s1)
      s3 == Log(s2, <<"ElMessage.error", 1, 0>>)
  IN  Log(s3, <<"router.push", 0, 0>>)

\* one step of processQueue's forEach
settleEntry(s, e, error, tok) ==
  IF error THEN Defer(Log(s, <<"reject", e, 0>>), <<"catch", e, 0, 0>>)
  ELSE IF Truthy(tok) THEN Defer(Log(s, <<"resolve", e, tok>>), <<"then", e, tok, 0>>)
  ELSE s

RECURSIVE forEach(_, _, _, _)
forEach(s, q, error, tok) ==
  IF q = <<>> THEN s
  ELSE forEach(settleEntry(s, Head(q), error, tok), Tail(q), error, tok)

\* processQueue without `this.failedQueue = []`
processQueue_keep(s, error, tok) == forEach(s, s.failedQueue, error, tok)

processQueue(s, error, tok) ==
  [forEach(s, s.failedQueue, error, tok) EXCEPT !.failedQueue = <<>>]

\* enqueue with unshift in place of push
enqueue_front(s, e) ==
  LET stamp == 1 + Cardinality({x \in Entries : Pending(s, x)})
      s1 == [s EXCEPT !.failedQueue = <<e>> \o @, !.enqAt[e] = stamp]
      s2 == IF e > 0
            THEN [s1 EXCEPT !.phase[e] = "queued", !.joined[e] = TRUE]
            ELSE [s1 EXCEPT !.refreshOf[-e] = "queued"]
  IN  Log(s2, <<"enqueue", e, stamp>>)

\* the queue branch of the response interceptor
enqueue(s, e) ==
  LET stamp == 1 + Cardinality({x \in Entries : Pending(s, x)})
      s1 == [s EXCEPT !.failedQueue = Append(@, e), !.enqAt[e] = stamp]
      s2 == IF e > 0
            THEN [s1 EXCEPT !.phase[e] = "queued", !.joined[e] = TRUE]
            ELSE [s1 EXCEPT !.refreshOf[-e] = "queued"]
  IN  Log(s2, <<"enqueue", e, stamp>>)

\* refreshToken()'s catch block
refreshTokenCatch(s) == clearToken(s)

\* the interceptor's catch (refreshError) and finally, for initiator o
interceptorCatch(s, o) ==
  LET s1 == processQueue(s, TRUE, Null)
      s2 == handleAuthError(s1)
      s3 == reject(s2, o)
  IN  Log([s3 EXCEPT !.isRefreshing = FALSE], <<"isRefreshing", o, 0>>)

\* interceptorTry after a refreshToken() that does not store the access token
interceptorTry_noPersist(s, o, a, nr) ==
  LET s1 == setRefreshToken(s, nr)
      s2 == processQueue(s1, FALSE, a)
      s3 == request(s2, o, String(a))
  IN  Log([s3 EXCEPT !.isRefreshing = FALSE], <<"isRefreshing", o, 0>>)

\* interceptorTry without the retry of the original request
interceptorTry_noRetry(s, o, a, nr) ==
  LET s1 == setRefreshToken(setToken(s, a), nr)
      s2 == processQueue(s1, FALSE, a)
      s3 == reject(s2, o)
  IN  Log([s3 EXCEPT !.isRefreshing = FALSE], <<"isRefreshing", o, 0>>)

\* refreshToken() after its post resolved with {access_token, refresh_token},
\* then the interceptor's try body and finally, for initiator o
interceptorTry(s, o, a, nr) ==
  LET s1 == setRefreshToken(setToken(s, a), nr)
      s2 == processQueue(s1, FALSE, a)
      s3 == request(s2, o, String(a))
  IN  Log([s3 EXCEPT !.isRefreshing = FALSE], <<"isRefreshing", o, 0>>)

\* startRefresh without `this.isRefreshing = true`
startRefresh_noFlag(s, r) ==
  LET s1 == [s EXCEPT !.retry[r] = TRUE, !.phase[r] = "awaitRefresh",
                      !.joined[r] = TRUE]
  IN  IF ~Truthy(getRefreshToken(s1))
      THEN interceptorCatch(refreshTokenCatch(s1), r)
      ELSE postRefresh(s1, r, Null)

\* startRefresh without `originalRequest._retry = true`
startRefresh_noMark(s, r) ==
  LET s1 == Log([s EXCEPT !.isRefreshing = TRUE,
                          !.phase[r] = "awaitRefresh", !.joined[r] = TRUE],
                <<"isRefreshing", r, 1>>)
  IN  IF ~Truthy(getRefreshToken(s1))
      THEN interceptorCatch(refreshTokenCatch(s1), r)
      ELSE postRefresh(s1, r, Null)

\* startRefresh whose refreshToken() posts whatever getRefreshToken returns
startRefresh_alwaysPost(s, r) ==
  LET s1 == Log([s EXCEPT !.retry[r] = TRUE, !.isRefreshing = TRUE,
                          !.phase[r] = "awaitRefresh", !.joined[r] = TRUE],
                <<"isRefreshing", r, 1>>)
  IN  postRefresh(s1, r, Null)

\* the refresh branch of the response interceptor, up to the await
startRefresh(s, r) ==
  LET s1 == Log([s EXCEPT !.retry[r] = TRUE, !.isRefreshing = TRUE,
                          !.phase[r] = "awaitRefresh", !.joined[r] = TRUE],
                <<"isRefreshing", r, 1>>)
  IN  IF ~Truthy(getRefreshToken(s1))
      THEN interceptorCatch(refreshTokenCatch(s1), r)
      ELSE postRefresh(s1, r, Null)

IsLogin(s, e) == e > 0 /\ s.url[e] = "login"
Retried(s, e) == e > 0 /\ s.retry[e]

\* errorInterceptor with the login check placed after the queue branch
errorInterceptor_lateLogin(s, e, st) ==
  IF st = Unauthorized /\ ~Retried(s, e)
  THEN IF s.isRefreshing THEN enqueue(s, e)
       ELSE IF IsLogin(s, e) THEN reject(s, e)
       ELSE startRefresh(s, e)
  ELSE reject(handleError(s, st), e)

\* errorInterceptor whose fallthrough rejects without calling handleError
errorInterceptor_silent(s, e, st) ==
  IF st = Unauthorized /\ ~Retried(s, e)
  THEN IF IsLogin(s, e) THEN reject(s, e)
       ELSE IF s.isRefreshing THEN enqueue(s, e)
       ELSE startRefresh(s, e)
  ELSE reject(s, e)

\* errorInterceptor without the !originalRequest._retry test
errorInterceptor_noRetryTest(s, e, st) ==
  IF st = Unauthorized
  THEN IF IsLogin(s, e) THEN reject(s, e)
       ELSE IF s.isRefreshing THEN enqueue(s, e)
       ELSE startRefresh(s, e)
  ELSE reject(handleError(s, st), e)

\* the response interceptor's error handler, for the request behind entry e
errorInterceptor(s, e, st) ==
  IF st = Unauthorized /\ ~Retried(s, e)
  THEN IF IsLogin(s, e) THEN reject(s, e)
       ELSE IF s.isRefreshing THEN enqueue(s, e)
       ELSE startRefresh(s, e)
  ELSE reject(handleError(s, st), e)

\* ------------------------------------------------ callers' continuations
\* the request in slot r has settled towards its caller: the slot is free
\* for the application's next request (a new config: no _retry, no history)
release(s, r) ==
  [s EXCEPT !.phase[r] = "idle", !.url[r] = "api", !.retry[r] = FALSE,
            !.joined[r] = FALSE, !.caller[r] = "app"]

\* setAuthToken(authToken, refreshToken)
setAuthToken(s, a, nr) ==
  LET s1 == setToken(s, a)
      s2 == IF Truthy(nr) THEN setRefreshToken(s1, nr) ELSE s1
  IN  [s2 EXCEPT !.token = a]

\* getCurrentUser() up to its await: GET /api/v1/auth/me in slot r, who
\* telling whether login() or the application awaits it
getCurrentUser(s, r, who) ==
  request([s EXCEPT !.caller[r] = who, !.url[r] = "api"], r, Null)

\* login()'s return with its finally block
loginReturn(s, result) ==
  Log([s EXCEPT !.loading = FALSE], <<"login.return", 0, result>>)

\* what follows the await of getCurrentUser(): the rest of login()'s try
\* block when login() awaits it, nothing otherwise
afterGetCurrentUser(s, who) ==
  IF who = "loginMe"
  THEN loginReturn(Log(s, <<"ElMessage.success", 1, 0>>), 1)
  ELSE Log(s, <<"getCurrentUser.return", 0, 0>>)

\* getCurrentUser() after a successful fetch that does not store the user
getCurrentUserThen_noUser(s, who, u) == afterGetCurrentUser(s, who)

\* getCurrentUser() after its fetch resolved with user u
getCurrentUserThen(s, who, u) ==
  afterGetCurrentUser([s EXCEPT !.user = u], who)

\* getCurrentUser()'s catch that only forgets the user
getCurrentUserCatch_keepToken(s, who) ==
  afterGetCurrentUser([s EXCEPT !.user = Null], who)

\* getCurrentUser()'s catch
getCurrentUserCatch(s, who) == afterGetCurrentUser(clearAuth(s), who)

\* login()'s try block after authApi.login that skips setAuthToken
loginThen_noToken(s, r, a, nr) ==
  getCurrentUser([s EXCEPT !.returned = <<a, nr>>], r, "loginMe")

\* login()'s try block after authApi.login resolved with the token pair
loginThen(s, r, a, nr) ==
  getCurrentUser(setAuthToken([s EXCEPT !.returned = <<a, nr>>], a, nr), r, "loginMe")

\* login()'s catch that clears the authentication state
loginCatch_clear(s, st) ==
  LET s1 == IF st = Unauthorized THEN Log(s, <<"ElMessage.error", 2, 0>>) ELSE s
  IN  loginReturn(clearAuth(s1), 0)

\* login()'s catch, st being error.response?.status
loginCatch(s, st) ==
  LET s1 == IF st = Unauthorized THEN Log(s, <<"ElMessage.error", 2, 0>>) ELSE s
  IN  loginReturn(s1, 0)

\* the caller's await after the request promise resolved with body (a, nr)
callerThen(s, r, a, nr) ==
  LET who == s.caller[r]
      s1  == Log(release(s, r), <<"settle", r, 1>>)
  IN  CASE who = "login" -> loginThen(s1, r, a, nr)
        [] who \in {"me", "loginMe"} -> getCurrentUserThen(s1, who, a)
        [] OTHER -> s1

\* the caller's await after the request promise rejected; the error is the
\* one of the answer this task handles
callerCatch(s, r) ==
  LET who == s.caller[r]
      s1  == Log(release(s, r), <<"settle", r, 0>>)
  IN  CASE who = "login" -> loginCatch(s1, s.events[1][3])
        [] who \in {"me", "loginMe"} -> getCurrentUserCatch(s1, who)
        [] OTHER -> s1

\* ------------------------------------------------------ the microtasks
runMicrotask(s, m) ==
  LET kind == m[1]
      e    == m[2]
  IN  CASE kind = "then"               -> resend(s, e, String(m[3]))
        [] kind = "catch"              -> reject(s, e)
        [] kind = "rejected" /\ e < 0  -> interceptorCatch(refreshTokenCatch(s), -e)
        [] kind = "rejected" /\ e > 0  -> callerCatch(s, e)
        [] kind = "resolved" /\ e < 0  -> interceptorTry(s, -e, m[3], m[4])
        [] kind = "resolved" /\ e > 0  -> callerThen(s, e, m[3], m[4])

RECURSIVE drain(_)
drain(s) ==
  IF s.micro = <<>> THEN s
  ELSE drain(runMicrotask([s EXCEPT !.micro = Tail(@)], Head(s.micro)))

\* ------------------------------------------- the question-bank dialogs
\* the three upload dialogs of the admin front end
Dialogs == {"QuestionBankUpload", "SubjectQuestionBanks", "QuestionBanks"}
\* a selected file: the extension of its name, and whether it exceeds 10MB
Extensions == {"json", "xlsx", "txt"}
Files  == [ext : Extensions, big : BOOLEAN]
NoFile == [ext |-> "none", big |-> FALSE]      \* uploadForm.file = null
\* the accept attribute of each dialog's el-upload
accept(d) ==
  IF d = "QuestionBankUpload" THEN {"json", "xlsx", "xls"} ELSE {"json"}

\* the working state a dialog handler runs on
Up ==
  [dialog |-> dialog, uploadForm |-> uploadForm, fileList |-> fileList,
   uploading |-> uploading, posted |-> posted]

CommitUpload(u) ==
  /\ dialog'     = u.dialog
  /\ uploadForm' = u.uploadForm
  /\ fileList'   = u.fileList
  /\ uploading'  = u.uploading
  /\ posted'     = u.posted
  /\ UNCHANGED <<httpVars, dbVars, routerVars, keyVars, chatVars>>

\* uploadRef.clearFiles()
clearFiles(u) == [u EXCEPT !.fileList = <<>>]

\* the on-change handler of each dialog, for a file with file.raw set
handleFileChange(u, f) ==
  CASE u.dialog = "QuestionBankUpload" ->
         IF f.big
         THEN [u EXCEPT !.fileList = <<>>, !.uploadForm.file = NoFile]
         ELSE [u EXCEPT !.uploadForm.file = f]
    [] u.dialog = "SubjectQuestionBanks" ->
         [u EXCEPT !.uploadForm.file = f]
    [] u.dialog = "QuestionBanks" ->
         IF f.ext # "json" THEN clearFiles(u)
         ELSE IF f.big THEN clearFiles(u)
         ELSE [u EXCEPT !.uploadForm.file = f, !.fileList = <<f>>]

\* the on-remove handler (QuestionBanks registers none)
handleFileRemove(u) ==
  IF u.dialog = "QuestionBanks" THEN u ELSE [u EXCEPT !.uploadForm.file = NoFile]

\* uploadFormRef.validate() against each dialog's uploadRules (the subject
\* field counts as filled)
validate(u) ==
  IF u.dialog = "SubjectQuestionBanks" THEN u.uploadForm.name
  ELSE u.uploadForm.name /\ u.uploadForm.file # NoFile

\* the POST to /api/v1/question-banks/upload with uploadForm.file
postUpload(u) ==
  [u EXCEPT !.uploading = TRUE, !.posted = @ \cup {u.uploadForm.file.ext}]

\* the click handler of each dialog's upload button, up to its await
handleUpload(u) ==
  CASE u.dialog = "QuestionBankUpload" ->
         IF validate(u) THEN postUpload(u) ELSE u
    [] u.dialog = "SubjectQuestionBanks" ->
         IF ~validate(u) THEN u
         ELSE IF u.uploadForm.file = NoFile THEN u
         ELSE postUpload(u)
    [] u.dialog = "QuestionBanks" ->
         IF validate(u) /\ u.uploadForm.file # NoFile THEN postUpload(u) ELSE u

\* handleClose / handleCloseUploadDialog / resetUploadForm
handleClose(u) ==
  [u EXCEPT !.uploadForm = [name |-> FALSE, file |-> NoFile], !.fileList = <<>>]

\* the dialog as it is before it is opened
UploadClosed ==
  /\ uploadForm = [name |-> FALSE, file |-> NoFile]
  /\ fileList = <<>>
  /\ uploading = FALSE
  /\ posted = {}

\* the user picks file f in el-upload (the accept attribute only presets the
\* file chooser's filter): with :limit="1" a second file is refused, otherwise
\* the file is listed and on-change runs
SelectFile(f) ==
  /\ Len(fileList) < 1
  /\ CommitUpload(handleFileChange([Up EXCEPT !.fileList = Append(@, f)], f))

\* the user removes the listed file
RemoveFile ==
  /\ fileList # <<>>
  /\ CommitUpload(handleFileRemove(clearFiles(Up)))

\* the user types or clears the name field
EditName(filled) ==
  /\ uploadForm.name # filled
  /\ CommitUpload([Up EXCEPT !.uploadForm.name = filled])

\* the user clicks the upload button (el-button ignores clicks while loading)
ClickUpload ==
  /\ ~uploading
  /\ CommitUpload(handleUpload(Up))

\* the upload request is answered: success closes and resets the dialog
UploadDone(ok) ==
  /\ uploading
  /\ CommitUpload([(IF ok THEN handleClose(Up) ELSE Up) EXCEPT !.uploading = FALSE])

\* the user cancels the dialog
CancelUpload ==
  /\ uploadForm # [name |-> FALSE, file |-> NoFile] \/ fileList # <<>>
  /\ CommitUpload(handleClose(Up))

\* ------------------------------------------- the backend's subject API
Ids == 1..NumIds
\* the working state a backend handler runs on
Db ==
  [subjects |-> subjects, bankSubject |-> bankSubject,
   questionSubject |-> questionSubject, response |-> response]

CommitDb(d) ==
  /\ subjects'        = d.subjects
  /\ bankSubject'     = d.bankSubject
  /\ questionSubject' = d.questionSubject
  /\ response'        = d.response
  /\ UNCHANGED <<httpVars, uploadVars, routerVars, keyVars, chatVars>>

NoResponse == [message |-> "none", deleted_questions |-> 0, deleted_question_banks |-> 0]

\* the questions / question banks subject s owns
questionsOf(d, s) == {q \in Ids : d.questionSubject[q] = s}
banksOf(d, s)     == {b \in Ids : d.bankSubject[b] = s}

\* the status a GET of one question / one question bank answers with
getQuestion(d, q)     == IF d.questionSubject[q] = 0 THEN NotFound ELSE OkStatus
getQuestionBank(d, b) == IF d.bankSubject[b] = 0 THEN NotFound ELSE OkStatus

\* deleteSubject that leaves the subject's question banks in place
deleteSubject_keepBanks(d, s) ==
  [d EXCEPT
     !.questionSubject = [q \in Ids |-> IF @[q] = s THEN 0 ELSE @[q]],
     !.subjects = @ \ {s},
     !.response = [message |-> "deleted",
                   deleted_questions |-> Cardinality(questionsOf(d, s)),
                   deleted_question_banks |-> Cardinality(banksOf(d, s))]]

\* DELETE /api/v1/questions/subjects/{s}: the subject's questions and
\* question banks are deleted explicitly and counted, then the subject
deleteSubject(d, s) ==
  [d EXCEPT
     !.questionSubject = [q \in Ids |-> IF @[q] = s THEN 0 ELSE @[q]],
     !.bankSubject = [b \in Ids |-> IF @[b] = s THEN 0 ELSE @[b]],
     !.subjects = @ \ {s},
     !.response = [message |-> "deleted",
                   deleted_questions |-> Cardinality(questionsOf(d, s)),
                   deleted_question_banks |-> Cardinality(banksOf(d, s))]]

DbEmpty ==
  /\ subjects = {}
  /\ bankSubject = [b \in Ids |-> 0]
  /\ questionSubject = [q \in Ids |-> 0]
  /\ response = NoResponse

CreateSubject(s) ==
  /\ s \notin subjects
  /\ CommitDb([Db EXCEPT !.subjects = @ \cup {s}, !.response = NoResponse])

CreateQuestionBank(b, s) ==
  /\ bankSubject[b] = 0 /\ s \in subjects
  /\ CommitDb([Db EXCEPT !.bankSubject[b] = s, !.response = NoResponse])

CreateQuestion(q, s) ==
  /\ questionSubject[q] = 0 /\ s \in subjects
  /\ CommitDb([Db EXCEPT !.questionSubject[q] = s, !.response = NoResponse])

DeleteQuestion(q) ==
  /\ questionSubject[q] # 0
  /\ CommitDb([Db EXCEPT !.questionSubject[q] = 0, !.response = NoResponse])

DeleteSubject(s) ==
  /\ s \in subjects
  /\ CommitDb(deleteSubject(Db, s))

\* ------------------------------------------------------ the admin router
\* how many redirects of one navigation are followed before it is given up
\* as a redirect loop
MaxRedirects == 4

NoLocation == "none"
Loop == "loop"
\* router.currentRoute before the first navigation
StartLocation == "start"

\* one path per kind of location: the public views, the Dashboard parent
\* with its Home child, another of its children, the redirect record, a
\* protected top-level view and a path that no record matches
Paths == {"/login", "/register", "/", "/subjects", "/dashboard",
          "/subject/1", "/nowhere"}

\* the route records a path matches, parent first
matched(p) ==
  CASE p = "/login"     -> <<"Login">>
    [] p = "/register"  -> <<"Register">>
    [] p = "/"          -> <<"Dashboard", "Home">>
    [] p = "/subjects"  -> <<"Dashboard", "Subjects">>
    [] p = "/dashboard" -> <<"/dashboard">>
    [] p = "/subject/1" -> <<"SubjectDetail">>
    [] OTHER            -> <<>>

\* the records that carry meta: { requiresAuth: true }
requiresAuth(record) == record \in {"Dashboard", "SubjectDetail"}

\* to.meta.requiresAuth, to.meta merging the meta of every matched record
metaRequiresAuth(p) == \E i \in DOMAIN matched(p) : requiresAuth(matched(p)[i])

\* the redirect of the record a path matches
redirect(p) == IF p = "/dashboard" THEN "/" ELSE NoLocation

\* the guard that sends a signed-in visitor of /login back to /login
beforeEach_loop(s, to) ==
  IF metaRequiresAuth(to) /\ ~Truthy(s.token) THEN "/login"
  ELSE IF to = "/login" /\ Truthy(s.token) THEN "/login"
  ELSE to

\* router.beforeEach: the location next() is called with, to itself for a
\* plain next()
beforeEach(s, to) ==
  IF metaRequiresAuth(to) /\ ~Truthy(s.token) THEN "/login"
  ELSE IF to = "/login" /\ Truthy(s.token) THEN "/dashboard"
  ELSE to

\* the location a navigation to p is confirmed for, n redirects after it
\* began: a record's redirect is followed before the guard runs, a guard's
\* redirect starts the navigation over
RECURSIVE pushWithRedirect(_, _, _)
pushWithRedirect(s, p, n) ==
  IF n > MaxRedirects THEN [path |-> Loop, redirects |-> n]
  ELSE IF redirect(p) # NoLocation THEN pushWithRedirect(s, redirect(p), n + 1)
  ELSE IF beforeEach(s, p) # p THEN pushWithRedirect(s, beforeEach(s, p), n + 1)
  ELSE [path |-> p, redirects |-> n]

\* router.push(p) in store state s: the guard has run, the confirmed target
\* waits for its lazily imported components; a pending navigation is
\* cancelled by the new one
push(s, p) ==
  LET nav == pushWithRedirect(s, p, 0)
  IN  /\ pendingLocation' = nav.path
      /\ navigation' = [to |-> p, auth |-> Truthy(s.token),
                        redirects |-> nav.redirects]
      /\ UNCHANGED currentRoute

RouterIdle ==
  /\ currentRoute = StartLocation
  /\ pendingLocation = NoLocation
  /\ navigation = [to |-> NoLocation, auth |-> FALSE, redirects |-> 0]

\* a view or the address bar navigates to p
Navigate(p) ==
  /\ push(St, p)
  /\ UNCHANGED <<httpVars, uploadVars, dbVars, keyVars, chatVars>>

\* the components of the pending target are loaded: the navigation completes
FinalizeNavigation ==
  /\ pendingLocation \notin {NoLocation, Loop}
  /\ currentRoute' = pendingLocation
  /\ pendingLocation' = NoLocation
  /\ UNCHANGED <<navigation, httpVars, uploadVars, dbVars, keyVars, chatVars>>

\* the Dashboard's user menu, command 'logout': logout() and a push
handleCommand ==
  /\ currentRoute \in {"/", "/subjects"}
  /\ LET s == drain(logout(Begin(St, <<"call", 0, 0>>)))
     IN  CommitHttp(s) /\ push(s, "/login")
  /\ UNCHANGED <<uploadVars, dbVars, keyVars, chatVars>>

\* a request's refresh failed: handleAuthError signs out and pushes /login
SessionExpired ==
  /\ LET s == drain(handleAuthError(Begin(St, <<"call", 0, 0>>)))
     IN  CommitHttp(s) /\ push(s, "/login")
  /\ UNCHANGED <<uploadVars, dbVars, keyVars, chatVars>>

\* the fetch of the current user failed: getCurrentUser's catch
FetchUserFailed ==
  /\ Truthy(token)
  /\ CommitHttp(drain(getCurrentUserCatch(Begin(St, <<"call", 0, 0>>), "me")))
  /\ UNCHANGED <<uploadVars, dbVars, routerVars, keyVars, chatVars>>

\* the login call of the Login view was answered with a token pair
LoginAnswered(a, nr) ==
  /\ currentRoute = "/login"
  /\ CommitHttp(drain(setAuthToken(Begin(St, <<"call", 0, 0>>), a, nr)))
  /\ UNCHANGED <<uploadVars, dbVars, routerVars, keyVars, chatVars>>

\* ------------------------------------------- the access-key front end
NumCalls == 2
Calls == 1..NumCalls
AccessKeys == {1, 2}
NoCall == [kind |-> "idle", key |-> Null, header |-> Null]

\* the working state a task of the access-key front end runs on
Key ==
  [accessKey |-> accessKey, authenticated |-> authenticated,
   storedKey |-> storedKey, calls |-> calls, trace |-> trace,
   keyless |-> keyless]

CommitKey(k) ==
  /\ accessKey'     = k.accessKey
  /\ authenticated' = k.authenticated
  /\ storedKey'     = k.storedKey
  /\ calls'         = k.calls
  /\ trace'         = k.trace
  /\ keyless'       = k.keyless
  /\ UNCHANGED <<httpVars, uploadVars, dbVars, routerVars, chatVars>>

Note(k, e)   == [k EXCEPT !.trace = Append(@, e)]
Starts(k, e) == [k EXCEPT !.trace = <<e>>]

\* the request interceptor: the X-Access-Key header the call leaves with
keyRequestInterceptor(k) == IF Truthy(k.storedKey) THEN k.storedKey ELSE Null

\* instance.post / instance.get: call c leaves through the interceptor
instanceRequest(k, c, kind, key) ==
  Note([k EXCEPT !.calls[c] = [kind |-> kind, key |-> key,
                               header |-> keyRequestInterceptor(k)]],
       <<"send", c, keyRequestInterceptor(k)>>)

\* the response error interceptor that keeps the stored key on a 401
responseError_keepKey(k, c, st) ==
  Note(Note([k EXCEPT !.calls[c] = NoCall], <<"ElMessage.error", c, st>>),
       <<"reject", c, st>>)

\* the response error interceptor for the error of call c with status st
\* (NetworkError: no response): one message, on 401 the stored key is
\* removed, and the error itself is rejected
responseError(k, c, st) ==
  LET k1 == Note([k EXCEPT !.calls[c] = NoCall], <<"ElMessage.error", c, st>>)
      k2 == IF st = Unauthorized
            THEN Note([k1 EXCEPT !.storedKey = Null, !.keyless = TRUE],
                      <<"removeItem", c, 0>>)
            ELSE k1
  IN  Note(k2, <<"reject", c, st>>)

\* the store's logout()
logoutKey(k) ==
  [k EXCEPT !.accessKey = EmptyStr, !.authenticated = FALSE,
            !.storedKey = Null]

\* verifyAccessKey(key) after authApi.verify resolved with response.valid
verifyThen(k, c, valid) ==
  LET key == k.calls[c].key
      k0  == [k EXCEPT !.calls[c] = NoCall]
  IN  IF valid
      THEN Note(Note([k0 EXCEPT !.accessKey = key, !.authenticated = TRUE,
                                !.storedKey = key, !.keyless = FALSE],
                     <<"ElMessage.success", c, 0>>),
                <<"return", c, 1>>)
      ELSE Note(logoutKey(Note(k0, <<"ElMessage.error", c, 0>>)),
                <<"return", c, 0>>)

\* verifyAccessKey's catch block
verifyCatch(k, c) ==
  Note(Note(k, <<"ElMessage.error", c, 0>>), <<"return", c, 0>>)

KeyInit ==
  /\ accessKey = EmptyStr
  /\ authenticated = FALSE
  /\ storedKey \in {Null} \cup AccessKeys
  /\ calls = [c \in Calls |-> NoCall]
  /\ trace = <<>>
  /\ keyless = FALSE

\* a view calls verifyAccessKey(key): POST /auth/verify as call c
VerifyAccessKey(c, key) ==
  /\ calls[c] = NoCall
  /\ CommitKey(instanceRequest(Starts(Key, <<"verify", c, key>>), c, "verify", key))

\* a view sends another request of the API as call c
ApiRequest(c) ==
  /\ calls[c] = NoCall
  /\ CommitKey(instanceRequest(Starts(Key, <<"call", c, 0>>), c, "api", Null))

\* the verification call c is answered 200 with valid or not
VerifyAnswered(c, valid) ==
  /\ calls[c].kind = "verify"
  /\ CommitKey(verifyThen(Starts(Key, <<"recv", c, OkStatus>>), c, valid))

\* call c is answered 200
ApiAnswered(c) ==
  /\ calls[c].kind = "api"
  /\ CommitKey(Note([Starts(Key, <<"recv", c, OkStatus>>) EXCEPT !.calls[c] = NoCall],
                    <<"resolve", c, 0>>))

\* call c fails with status st: the interceptor, then verifyAccessKey's
\* catch when it was the verification call
CallFailed(c, st) ==
  /\ calls[c].kind # "idle"
  /\ LET k1 == responseError(Starts(Key, <<"recv", c, st>>), c, st)
     IN  CommitKey(IF calls[c].kind = "verify" THEN verifyCatch(k1, c) ELSE k1)

\* a view calls the store's logout()
LogoutKey ==
  CommitKey(logoutKey(Starts(Key, <<"logout", 0, 0>>)))

\* ---------------------------------------------------- the AI chat view
MaxMessages == 4
Blank == " "
Texts == {"q1", "q2"}
Inputs == {"", Blank} \cup Texts

\* String.prototype.trim on the inputs
trim(v) == IF v = Blank THEN "" ELSE v

\* the body of sendMessage up to its first await, without the isLoading test
sendMessage_noLoadingTest ==
  IF trim(inputMessage) = ""
  THEN /\ lastCall' = "ignored"
       /\ UNCHANGED <<messages, inputMessage, isLoading, awaiting, chatRequests>>
  ELSE /\ messages' = Append(messages, <<"user", trim(inputMessage)>>)
       /\ awaiting' = Append(awaiting, inputMessage)
       /\ inputMessage' = ""
       /\ lastCall' = "sent"
       /\ UNCHANGED <<isLoading, chatRequests>>

\* the body of sendMessage up to await scrollToBottom()
sendMessage ==
  IF trim(inputMessage) = "" \/ isLoading
  THEN /\ lastCall' = "ignored"
       /\ UNCHANGED <<messages, inputMessage, isLoading, awaiting, chatRequests>>
  ELSE /\ messages' = Append(messages, <<"user", trim(inputMessage)>>)
       /\ awaiting' = Append(awaiting, inputMessage)
       /\ inputMessage' = ""
       /\ lastCall' = "sent"
       /\ UNCHANGED <<isLoading, chatRequests>>

ChatInit ==
  /\ messages = <<>>
  /\ inputMessage = ""
  /\ isLoading = FALSE
  /\ awaiting = <<>>
  /\ chatRequests = <<>>
  /\ lastCall = "none"

\* the button's click or Ctrl+Enter calls sendMessage; a call can follow
\* another within one task, before the first one's await has resumed
SendMessage ==
  /\ Len(messages) < MaxMessages
  /\ sendMessage
  /\ UNCHANGED <<httpVars, uploadVars, dbVars, routerVars, keyVars>>

\* the microtask after await scrollToBottom(): isLoading is set and the
\* chat request is posted
AfterScroll ==
  /\ awaiting # <<>>
  /\ isLoading' = TRUE
  /\ chatRequests' = Append(chatRequests, Head(awaiting))
  /\ awaiting' = Tail(awaiting)
  /\ UNCHANGED <<messages, inputMessage, lastCall>>
  /\ UNCHANGED <<httpVars, uploadVars, dbVars, routerVars, keyVars>>

\* a task of its own: the user edits the textarea (v-model)
EditInput(v) ==
  /\ awaiting = <<>>
  /\ inputMessage' = v
  /\ UNCHANGED <<messages, isLoading, awaiting, chatRequests, lastCall>>
  /\ UNCHANGED <<httpVars, uploadVars, dbVars, routerVars, keyVars>>

\* a task of its own: the oldest chat request is answered, ok or not; the
\* try or catch block appends the assistant's message, finally resets
\* isLoading
ChatAnswered(ok) ==
  /\ awaiting = <<>>
  /\ chatRequests # <<>>
  /\ messages' = Append(messages, <<"assistant", IF ok THEN "response" ELSE "sorry">>)
  /\ isLoading' = FALSE
  /\ chatRequests' = Tail(chatRequests)
  /\ UNCHANGED <<inputMessage, awaiting, lastCall>>
  /\ UNCHANGED <<httpVars, uploadVars, dbVars, routerVars, keyVars>>

\* ------------------------------------------------------------- actions
\* refresh answers: a new token pair, or a body whose access_token is missing
\* or empty
RefreshBodies == {<<k, k>> : k \in Tokens} \cup {<<Undefined, 1>>, <<EmptyStr, 1>>}
\* login answers: a token pair, the refresh token possibly missing
LoginBodies == {<<1, 1>>, <<2, 2>>, <<2, Undefined>>}
\* the body of a success answer to a request awaited by who
Bodies(who) ==
  CASE who = "login" -> LoginBodies
    [] who \in {"me", "loginMe"} -> {<<TheUser, 0>>}
    [] OTHER -> {<<0, 0>>}
ErrorStatuses ==
  {BadRequest, Unauthorized, Forbidden, NotFound, ServerError, BadGateway,
   NetworkError}

\* the application after start-up: signed out, or signed in earlier (the
\* stored refresh token may be missing)
HttpInit ==
  /\ isRefreshing = FALSE
  /\ failedQueue = <<>>
  /\ localStorage \in {[token |-> Null, refresh_token |-> Null],
                       [token |-> 1, refresh_token |-> Null],
                       [token |-> 1, refresh_token |-> 1]}
  /\ token = localStorage.token
  /\ user = IF token = Null THEN Null ELSE TheUser
  /\ loading = FALSE
  /\ caller = [r \in Reqs |-> "app"]
  /\ phase = [r \in Reqs |-> "idle"]
  /\ url = [r \in Reqs |-> "api"]
  /\ retry = [r \in Reqs |-> FALSE]
  /\ refreshOf = [r \in Reqs |-> "none"]
  /\ enqAt = [e \in Entries |-> 0]
  /\ joined = [r \in Reqs |-> FALSE]
  /\ events = <<>>
  /\ returned = <<Null, Null>>

Init ==
  /\ HttpInit
  /\ dialog = "QuestionBankUpload"
  /\ UploadClosed
  /\ DbEmpty
  /\ RouterIdle
  /\ KeyInit
  /\ storedKey = Null
  /\ ChatInit

\* the free request slots; a new request takes the lowest one
Idle(s) == {r \in Reqs : s.phase[r] = "idle"}
NextIdle(s) == CHOOSE r \in Idle(s) : \A q \in Idle(s) : r <= q

\* the application issues original request r to endpoint u
Send(r, u) ==
  /\ Idle(St) # {}
  /\ r = NextIdle(St)
  /\ Commit(drain(request([Begin(St, <<"call", r, 0>>) EXCEPT !.url[r] = u], r, Null)))

\* a success response to original request r
RespOk(r) ==
  /\ phase[r] = "inflight"
  /\ \E b \in Bodies(caller[r]) :
       LET s0 == Log(Begin(St, <<"recv", r, OkStatus>>), <<"body", b[1], b[2]>>)
       IN  Commit(drain(resolve(s0, r, b[1], b[2])))

\* an error response (or no response) to original request r
RespErr(r, st) ==
  /\ phase[r] = "inflight"
  /\ Commit(drain(errorInterceptor(Begin(St, <<"recv", r, st>>), r, st)))

\* a success response to the refresh call issued for o
RefreshOk(o, a, nr) ==
  /\ refreshOf[o] = "inflight"
  /\ LET s0 == Log(Begin(St, <<"recv", -o, OkStatus>>), <<"body", a, nr>>)
     IN  Commit(drain(resolve([s0 EXCEPT !.refreshOf[o] = "none"], -o, a, nr)))

\* an error response (or no response) to the refresh call issued for o.
\* The refresh call is only ever outstanding while isRefreshing holds
\* (RefreshHoldsFlag), so a 401 on it always takes the queue branch.
RefreshErr(o, st) ==
  /\ refreshOf[o] = "inflight"
  /\ st = Unauthorized => isRefreshing
  /\ LET s0 == Begin(St, <<"recv", -o, st>>)
     IN  Commit(drain(errorInterceptor([s0 EXCEPT !.refreshOf[o] = "none"], -o, st)))

\* the user logs out: the auth store's logout()
Logout ==
  Commit(drain(logout(Begin(St, <<"call", 0, 0>>))))

Next ==
  \/ \E r \in Reqs, u \in Urls : Send(r, u)
  \/ \E r \in Reqs : RespOk(r)
  \/ \E r \in Reqs, st \in ErrorStatuses : RespErr(r, st)
  \/ \E o \in Reqs, p \in RefreshBodies : RefreshOk(o, p[1], p[2])
  \/ \E o \in Reqs, st \in ErrorStatuses : RefreshErr(o, st)
  \/ Logout

Spec == Init /\ [][Next]_vars

\* no call of the client is pending and no store call is running
Quiet ==
  /\ ~loading
  /\ \A r \in Reqs : phase[r] = "idle" /\ refreshOf[r] = "none"

\* the page is loaded: a new HttpService and a new auth store, the store's
\* token read from local storage; with a token the store re-stores it and
\* fetches the current user
CreateStore ==
  LET s0 == Begin(St, <<"create", 0, 0>>)
      s1 == [s0 EXCEPT !.isRefreshing = FALSE, !.failedQueue = <<>>,
                       !.phase = [r \in Reqs |-> "idle"],
                       !.url = [r \in Reqs |-> "api"],
                       !.retry = [r \in Reqs |-> FALSE],
                       !.refreshOf = [r \in Reqs |-> "none"],
                       !.enqAt = [e \in Entries |-> 0],
                       !.joined = [r \in Reqs |-> FALSE],
                       !.caller = [r \in Reqs |-> "app"],
                       !.loading = FALSE, !.user = Null,
                       !.token = getToken(s0)]
  IN  Commit(drain(IF Truthy(s1.token)
                   THEN getCurrentUser(setAuthToken(s1, s1.token, Undefined), 1, "me")
                   ELSE s1))

\* the login page calls login(): loading is set and the login call is sent
Login ==
  /\ Quiet
  /\ LET s0 == Begin(St, <<"login", 0, 0>>)
         s1 == [s0 EXCEPT !.loading = TRUE, !.url[1] = "login", !.caller[1] = "login"]
     IN  Commit(drain(request(s1, 1, Null)))

\* the auth store, whose calls the pages make one at a time, on the client
NextAuth ==
  \/ CreateStore
  \/ Login
  \/ Quiet /\ Logout
  \/ \E r \in Reqs : RespOk(r)
  \/ \E r \in Reqs, st \in ErrorStatuses : RespErr(r, st)
  \/ \E o \in Reqs, p \in RefreshBodies : RefreshOk(o, p[1], p[2])
  \/ \E o \in Reqs, st \in ErrorStatuses : RefreshErr(o, st)

SpecAuth == Init /\ [][NextAuth]_vars

\* the upload dialogs on their own: one of the three is open
InitUpload ==
  /\ HttpInit
  /\ dialog \in Dialogs
  /\ UploadClosed
  /\ DbEmpty
  /\ RouterIdle
  /\ KeyInit
  /\ storedKey = Null
  /\ ChatInit

NextUpload ==
  \/ \E f \in Files : SelectFile(f)
  \/ RemoveFile
  \/ \E b \in BOOLEAN : EditName(b)
  \/ ClickUpload
  \/ \E ok \in BOOLEAN : UploadDone(ok)
  \/ CancelUpload

SpecUpload == InitUpload /\ [][NextUpload]_vars

\* the backend's subject API on its own
NextSubjects ==
  \/ \E x \in Ids : CreateSubject(x)
  \/ \E b \in Ids, x \in Ids : CreateQuestionBank(b, x)
  \/ \E q \in Ids, x \in Ids : CreateQuestion(q, x)
  \/ \E q \in Ids : DeleteQuestion(q)
  \/ \E x \in Ids : DeleteSubject(x)

\* the store empty and the front end signed out
InitSubjects ==
  /\ Init
  /\ localStorage.token = Null

SpecSubjects == InitSubjects /\ [][NextSubjects]_vars

\* the admin router with the store calls that change isAuthenticated
NextRouter ==
  \/ \E p \in Paths : Navigate(p)
  \/ FinalizeNavigation
  \/ handleCommand
  \/ SessionExpired
  \/ FetchUserFailed
  \/ \E a \in Tokens, nr \in Tokens : LoginAnswered(a, nr)

SpecRouter == Init /\ [][NextRouter]_vars

\* the statuses a call of the access-key client fails with
KeyStatuses == {Unauthorized, Forbidden, NotFound, ServerError, BadGateway,
                NetworkError}

\* the access-key front end: its auth store on its HTTP client
NextKey ==
  \/ \E c \in Calls, key \in AccessKeys : VerifyAccessKey(c, key)
  \/ \E c \in Calls : ApiRequest(c)
  \/ \E c \in Calls, valid \in BOOLEAN : VerifyAnswered(c, valid)
  \/ \E c \in Calls : ApiAnswered(c)
  \/ \E c \in Calls, st \in KeyStatuses : CallFailed(c, st)
  \/ LogoutKey

\* the front end opened with or without a key kept from an earlier visit
InitKey ==
  /\ HttpInit
  /\ localStorage.token = Null
  /\ dialog = "QuestionBankUpload"
  /\ UploadClosed
  /\ DbEmpty
  /\ RouterIdle
  /\ KeyInit
  /\ ChatInit

SpecKey == InitKey /\ [][NextKey]_vars

\* the AI chat view
NextChat ==
  \/ SendMessage
  \/ AfterScroll
  \/ \E v \in Inputs : EditInput(v)
  \/ \E ok \in BOOLEAN : ChatAnswered(ok)

\* the view mounted, nothing typed yet
InitChat ==
  /\ Init
  /\ localStorage.token = Null

SpecChat == InitChat /\ [][NextChat]_vars

TypeOK ==
  /\ isRefreshing \in BOOLEAN
  /\ \A i \in 1..Len(failedQueue) : failedQueue[i] \in Entries
  /\ phase \in [Reqs -> {"idle", "inflight", "queued", "awaitRefresh"}]
  /\ refreshOf \in [Reqs -> {"none", "inflight", "queued"}]

\* a refresh call is only outstanding while isRefreshing holds
RefreshHoldsFlag == \A o \in Reqs : refreshOf[o] = "inflight" => isRefreshing

\* ------------------------------------------------- reading the event list
\* the positions of log at which an event named ev about id occurs
At(log, ev, id) == {i \in DOMAIN log : log[i][1] = ev /\ log[i][2] = id}
\* the positions of log at which an event named ev occurs
AtAny(log, ev) == {i \in DOMAIN log : log[i][1] = ev}
\* the task that produced log handled the answer st to entry e's request
Handled(log, e, st) == log # <<>> /\ log[1] = <<"recv", e, st>>
\* the refresh calls awaiting their answer
Outstanding == {o \in Reqs : refreshOf[o] = "inflight"}

\* C1: at most one call to the refresh endpoint is outstanding in every
\* reachable state; a task that issues a refresh call starts with
\* isRefreshing false and sets it to true before it sends the call.
C1_SingleFlight ==
  /\ [](Cardinality(Outstanding) <= 1)
  /\ [][\A o \in Reqs : At(events', "sendRefresh", o) # {} =>
          /\ ~isRefreshing
          /\ isRefreshing'
          /\ \A i \in At(events', "sendRefresh", o) :
               \E j \in 1..(i - 1) : events'[j] = <<"isRefreshing", o, 1>>]_vars

\* C1 witness: a second request failed with 401 while the refresh call of
\* the first is outstanding, and waits in the queue.
C1_Witness ==
  \E o \in Reqs : refreshOf[o] = "inflight" /\ Len(failedQueue) >= 1

\* request r is in flight, is not a login and has not been marked _retry
Fresh(r) == phase[r] = "inflight" /\ ~retry[r] /\ url[r] # "login"
\* the original requests waiting in the queue
Queued == {failedQueue[i] : i \in DOMAIN failedQueue}

\* C2: of N requests that fail with 401 from a state with no refresh in
\* progress, all before the refresh answer is handled, the first issues
\* exactly one refresh call (a refresh token being stored), each of the other
\* N-1 is appended to the pending queue and issues nothing, and the task that
\* handles the successful refresh answer (one carrying an access token)
\* re-sends each of the N requests exactly once.
C2_OneRefreshPerBurst ==
  /\ [](\A o \in Outstanding :
          /\ phase[o] = "awaitRefresh" /\ retry[o]
          /\ \A i \in DOMAIN failedQueue :
               /\ failedQueue[i] \in Reqs \ {o}
               /\ phase[failedQueue[i]] = "queued"
               /\ \A j \in DOMAIN failedQueue : failedQueue[j] = failedQueue[i] => j = i)
  /\ [][\A r \in Reqs : Handled(events', r, Unauthorized) /\ Fresh(r) =>
          IF isRefreshing
          THEN /\ failedQueue' = Append(failedQueue, r)
               /\ AtAny(events', "sendRefresh") = {}
               /\ AtAny(events', "send") = {}
               /\ refreshOf' = refreshOf
          ELSE Truthy(localStorage.refresh_token) =>
               /\ Cardinality(AtAny(events', "sendRefresh")) = 1
               /\ At(events', "sendRefresh", r) # {}
               /\ Outstanding' = {r}
               /\ failedQueue' = failedQueue]_vars
  /\ [][\A o \in Reqs : Handled(events', -o, OkStatus) /\ Truthy(events'[2][2]) =>
          /\ \A r \in {o} \cup Queued :
               Cardinality(At(events', "send", r)) = 1 /\ phase'[r] = "inflight"
          /\ Cardinality(AtAny(events', "send")) = 1 + Len(failedQueue)
          /\ AtAny(events', "sendRefresh") = {}]_vars

\* C2 witness: the refresh succeeded with two requests queued behind the
\* initiator, and the task re-sent all three.
C2_Witness ==
  \E o \in Reqs :
    /\ Handled(events, -o, OkStatus)
    /\ Cardinality(AtAny(events, "resolve")) = 2
    /\ Cardinality(AtAny(events, "send")) = 3

\* the task that produced log handled a failed refresh attempt made for o:
\* an error answer to the refresh call (any status, 401 included, or no
\* answer at all), or no stored refresh token (no call was sent)
RefreshFailed(log, o) ==
  \/ \E st \in ErrorStatuses : Handled(log, -o, st)
  \/ /\ At(log, "isRefreshing", o) # {}
     /\ At(log, "sendRefresh", o) = {}
     /\ \E r \in Reqs : Handled(log, r, Unauthorized)

\* C3: when the refresh attempt fails for any reason (no stored refresh
\* token, network error, or any error status of the refresh endpoint, 401
\* included), every deferred of the pending queue is rejected - none is left
\* waiting in the queue - and afterwards local storage holds neither 'token'
\* nor 'refresh_token'.
C3_RefreshFailureRejectsAndClears ==
  \A o \in Reqs : RefreshFailed(events, o) =>
    /\ failedQueue = <<>>
    /\ localStorage.token = Null
    /\ localStorage.refresh_token = Null

\* no HTTP call awaits its answer
NothingInFlight ==
  \A r \in Reqs : phase[r] # "inflight" /\ refreshOf[r] # "inflight"

\* C4: a failed refresh ends the session: once the refresh call made for o
\* has failed (rejected by the server or a network error) the initiator and
\* every queued request fail, the auth store is logged out and a navigation
\* to /login is issued.  Stated for the moment every HTTP call has been
\* answered, after which no further task can settle anything: no request
\* is still waiting on the refresh, and the store's token and user are null.
C4_FailedRefreshEndsSession ==
  \A o \in Reqs :
    (/\ NothingInFlight
     /\ \/ refreshOf[o] = "queued"
        \/ \E st \in ErrorStatuses : Handled(events, -o, st)) =>
    /\ \A r \in Reqs : phase[r] \notin {"awaitRefresh", "queued"}
    /\ token = Null /\ user = Null
    /\ AtAny(events, "router.push") # {}

\* C5: a 401 answer to a request whose url contains /auth/login is rejected
\* at once with the original error, whether or not a refresh is in progress:
\* no refresh call, no queueing, no notification by the client, and
\* isRefreshing, failedQueue and the stored tokens stay as they were.
C5_LoginNeverRefreshes ==
  [][\A r \in Reqs :
       (Handled(events', r, Unauthorized) /\ phase[r] = "inflight" /\ url[r] = "login") =>
         /\ events' = <<<<"recv", r, Unauthorized>>, <<"settle", r, 0>>>>
         /\ isRefreshing' = isRefreshing
         /\ failedQueue' = failedQueue
         /\ localStorage' = localStorage
         /\ refreshOf' = refreshOf]_vars

\* C5 witness: a login 401 was rejected at once while a refresh was in
\* progress (any other request would have been queued or notified).
C5_Witness ==
  \E r \in Reqs :
    /\ events = <<<<"recv", r, Unauthorized>>, <<"settle", r, 0>>>>
    /\ isRefreshing
    /\ Outstanding # {}

\* C6: a request already marked _retry that receives 401 again does not
\* re-enter the refresh flow: no refresh call, no queueing; it is rejected to
\* its caller as an ordinary error (one handleError notification).
C6_RetriedNotRefreshedAgain ==
  [][\A r \in Reqs :
       (Handled(events', r, Unauthorized) /\ phase[r] = "inflight" /\ retry[r]) =>
         /\ events' = <<<<"recv", r, Unauthorized>>,
                        <<"ElMessage.error", 0, Unauthorized>>,
                        <<"settle", r, 0>>>>
         /\ isRefreshing' = isRefreshing
         /\ failedQueue' = failedQueue
         /\ refreshOf' = refreshOf
         /\ localStorage' = localStorage]_vars

\* C6 witness: a retried request got 401 again and was rejected through
\* handleError.
C6_Witness ==
  \E r \in Reqs :
    events = <<<<"recv", r, Unauthorized>>,
               <<"ElMessage.error", 0, Unauthorized>>,
               <<"settle", r, 0>>>>

\* C7: no original request takes part in the refresh flow more than once,
\* as initiator or as waiter: once it has been retried after a refresh, a
\* further 401 on it neither issues a refresh call nor queues it again.
C7_AtMostOnceInFlow ==
  [][\A r \in Reqs :
       (Handled(events', r, Unauthorized) /\ phase[r] = "inflight" /\ joined[r]) =>
         /\ At(events', "enqueue", r) = {}
         /\ AtAny(events', "sendRefresh") = {}
         /\ At(events', "isRefreshing", r) = {}]_vars

\* the task that produced log ran a refresh attempt made for o to its end:
\* refreshToken() returned or threw (a success answer, an error answer the
\* interceptor passes on, or no stored refresh token)
RefreshCompleted(log, o) ==
  \/ Handled(log, -o, OkStatus)
  \/ \E st \in ErrorStatuses \ {Unauthorized} : Handled(log, -o, st)
  \/ /\ At(log, "isRefreshing", o) # {}
     /\ At(log, "sendRefresh", o) = {}
     /\ \E r \in Reqs : Handled(log, r, Unauthorized)

Settles(log) == AtAny(log, "resolve") \cup AtAny(log, "reject")

\* C9: when a refresh completes, the queued deferreds are settled in the
\* order in which they were enqueued: a deferred enqueued earlier (smaller
\* enqueue stamp) is settled earlier.
C9_Fifo ==
  \A i \in Settles(events) : \A j \in Settles(events) :
    i < j => enqAt[events[i][2]] < enqAt[events[j][2]]

\* C9 witness: a refresh completed with two deferreds queued.
C9_Witness == Cardinality(Settles(events)) >= 2

\* C10: on a successful refresh (an answer carrying access token a and
\* refresh token nr) both are written to local storage before any queued
\* deferred is resolved and before any retry is sent; every queued deferred
\* is resolved with a, and every retry (initiator and queued) carries a as
\* its bearer token.
C10_NewTokenBeforeRetries ==
  [][\A o \in Reqs : (Handled(events', -o, OkStatus) /\ Truthy(events'[2][2])) =>
       LET log  == events'
           a    == log[2][2]
           nr   == log[2][3]
           uses == AtAny(log, "resolve") \cup AtAny(log, "send")
       IN  /\ \E i \in AtAny(log, "setToken") :
                log[i][3] = a /\ \A k \in uses : i < k
           /\ \E j \in AtAny(log, "setRefreshToken") :
                log[j][3] = nr /\ \A k \in uses : j < k
           /\ \A e \in Queued : At(log, "resolve", e) # {} /\ At(log, "send", e) # {}
           /\ At(log, "send", o) # {}
           /\ \A k \in uses : log[k][3] = a
           /\ localStorage' = [token |-> a, refresh_token |-> nr]]_vars

\* C10 witness: a refresh answered with a token other than the one the
\* session started with, while a request was queued.
C10_Witness ==
  \E o \in Reqs :
    /\ Handled(events, -o, OkStatus)
    /\ AtAny(events, "resolve") # {}
    /\ localStorage.token \in Tokens
    /\ localStorage.token # token

\* the error answers that are not a 401
NonAuthStatuses == ErrorStatuses \ {Unauthorized}
\* the HTTP call behind entry e awaits its answer
InFlight(e) == IF e > 0 THEN phase[e] = "inflight" ELSE refreshOf[-e] = "inflight"

\* C11 as stated, for every call of the client (the refresh call included):
\* a non-401 error answer is rejected after exactly one notification, nothing
\* is sent or queued, and isRefreshing, failedQueue, the stored tokens and the
\* auth store are left unchanged.
C11_AnyCallNonAuthErrorFrame ==
  [][\A e \in Entries : \A st \in NonAuthStatuses :
       (Handled(events', e, st) /\ InFlight(e)) =>
         /\ Cardinality(AtAny(events', "ElMessage.error")) = 1
         /\ AtAny(events', "send") = {} /\ AtAny(events', "sendRefresh") = {}
         /\ AtAny(events', "enqueue") = {}
         /\ isRefreshing' = isRefreshing
         /\ failedQueue' = failedQueue
         /\ localStorage' = localStorage
         /\ token' = token /\ user' = user]_vars

\* C11: a non-401 error answer (400, 403, 404, 500, another status, or no
\* answer at all) to an original request is rejected to its caller after
\* exactly one notification and nothing else: no refresh call, no queueing,
\* no re-send, and isRefreshing, failedQueue, the stored tokens and the auth
\* store stay as they were.  The same answer to the client's own refresh call
\* is notified once by handleError and is neither queued nor re-sent, but it
\* then fails the refresh: the flag is reset and the session is ended.
C11_NonAuthErrorRejectedOnce ==
  [][\A st \in NonAuthStatuses :
       /\ \A r \in Reqs : (Handled(events', r, st) /\ phase[r] = "inflight") =>
            /\ events' = <<<<"recv", r, st>>, <<"ElMessage.error", 0, st>>,
                           <<"settle", r, 0>>>>
            /\ isRefreshing' = isRefreshing
            /\ failedQueue' = failedQueue
            /\ localStorage' = localStorage
            /\ token' = token /\ user' = user
            /\ refreshOf' = refreshOf
            /\ retry' = [retry EXCEPT ![r] = FALSE]
       /\ \A o \in Reqs : (Handled(events', -o, st) /\ refreshOf[o] = "inflight") =>
            /\ events'[2] = <<"ElMessage.error", 0, st>>
            /\ Cardinality(At(events', "ElMessage.error", 0)) = 1
            /\ AtAny(events', "send") = {} /\ AtAny(events', "sendRefresh") = {}
            /\ AtAny(events', "enqueue") = {}
            /\ ~isRefreshing'
            /\ localStorage' = [token |-> Null, refresh_token |-> Null]]_vars

\* C11 witness: an original request failed with a non-401 error while a
\* refresh was in progress with a request waiting in the queue, and was
\* rejected after its one notification.
C11_Witness ==
  \E r \in Reqs : \E st \in NonAuthStatuses :
    /\ events = <<<<"recv", r, st>>, <<"ElMessage.error", 0, st>>,
                  <<"settle", r, 0>>>>
    /\ isRefreshing
    /\ failedQueue # <<>>

\* the task that produced log was a call of the auth store's logout()
LoggedOut(log) == log # <<>> /\ log[1] = <<"call", 0, 0>>

\* C12: after logout() of the auth store, from any prior state, the store's
\* token and user are null, isAuthenticated is false, and local storage
\* holds neither 'token' nor 'refresh_token'.
C12_LogoutClearsAll ==
  LoggedOut(events) =>
    /\ token = Null /\ user = Null
    /\ ~isAuthenticated
    /\ localStorage.token = Null
    /\ localStorage.refresh_token = Null

\* C12 witness: logout() was called while a refresh call was outstanding
\* and a request waited in the queue.
C12_Witness ==
  /\ LoggedOut(events)
  /\ Outstanding # {}
  /\ failedQueue # <<>>

\* the positions of log at which an HTTP call leaves the client
Sends(log) == AtAny(log, "send") \cup AtAny(log, "sendRefresh")
\* the positions before i at which the stored access token is written
TokenWrites(log, i) ==
  {j \in 1..(i - 1) : log[j][1] \in {"setToken", "clearToken"}}
\* the value under 'token' when the event at position i happens, the value
\* being before when the task began
StoredAt(log, i, before) ==
  IF TokenWrites(log, i) = {} THEN before
  ELSE LET j == CHOOSE k \in TokenWrites(log, i) :
                  \A l \in TokenWrites(log, i) : l <= k
       IN  IF log[j][1] = "setToken" THEN log[j][3] ELSE Null

\* C13: every call sent through the client - a first send, a retry after a
\* refresh, the refresh call itself - leaves with Authorization: Bearer t, t
\* being the access token stored under 'token' at the moment it is sent, and
\* with no Authorization header (Null) when no access token is stored (the
\* key is absent or holds the empty string).
C13_BearerIsStoredToken ==
  [][\A i \in Sends(events') :
       LET stored == StoredAt(events', i, localStorage.token)
       IN  events'[i][3] = IF Truthy(stored) THEN stored ELSE Null]_vars

\* C14: in every upload dialog a selected file whose name has an extension
\* the dialog does not support is rejected on the client: no request to the
\* upload endpoint is ever issued for it.
C14_UnsupportedNeverUploaded ==
  \A x \in posted : x \in accept(dialog)

\* the state of the backend after the step
DbNext ==
  [subjects |-> subjects', bankSubject |-> bankSubject',
   questionSubject |-> questionSubject', response |-> response']

\* C15: deleting a subject that owns exactly Q questions and B question
\* banks answers with deleted_questions = Q and deleted_question_banks = B,
\* and afterwards a GET of any of those questions or question banks answers
\* not-found.
C15_DeleteSubjectCounts ==
  [][\A x \in Ids : (x \in subjects /\ x \notin subjects') =>
       /\ response'.deleted_questions = Cardinality(questionsOf(Db, x))
       /\ response'.deleted_question_banks = Cardinality(banksOf(Db, x))
       /\ \A q \in questionsOf(Db, x) : getQuestion(DbNext, q) = NotFound
       /\ \A b \in banksOf(Db, x) : getQuestionBank(DbNext, b) = NotFound]_vars

\* C15 witness: a subject owning two questions and a question bank was
\* deleted while another subject kept a question bank of its own.
C15_Witness ==
  /\ response.message = "deleted"
  /\ response.deleted_questions = 2
  /\ response.deleted_question_banks = 1
  /\ \E b \in Ids : bankSubject[b] \in subjects

\* the task that produced log ended a login() call, which returned result
LoginReturned(log, result) == \E i \in DOMAIN log : log[i] = <<"login.return", 0, result>>
\* the task that produced log handled a success answer to a request
AnswerOk(log) == \E r \in Reqs : Handled(log, r, OkStatus)

FetchOkInLogin(log, r) ==
  Handled(log, r, OkStatus) /\ phase[r] = "inflight" /\ caller[r] = "loginMe"

C17_FailedLoginKeepsState ==
  [][/\ (events' # <<>> /\ events'[1] = <<"login", 0, 0>>) =>
          /\ loading'
          /\ token' = token /\ user' = user /\ localStorage' = localStorage
     /\ \A r \in Reqs : \A st \in ErrorStatuses :
          (Handled(events', r, st) /\ phase[r] = "inflight" /\ caller[r] = "login") =>
            /\ LoginReturned(events', 0)
            /\ ~loading'
            /\ token' = token /\ user' = user
            /\ localStorage' = localStorage]_vars

\* C17 witness: a login attempted while signed in was answered 401 and
\* returned false with the session kept.
C17_Witness ==
  /\ LoginReturned(events, 0)
  /\ events[1][3] = Unauthorized
  /\ token = 1 /\ user = TheUser
  /\ localStorage = [token |-> 1, refresh_token |-> 1]

\* the task that produced log rejected request r to its caller
Rejected(log, r) == \E i \in DOMAIN log : log[i] = <<"settle", r, 0>>

\* C18: when the login call succeeds but the current-user fetch that follows
\* it fails, login() returns true while the authentication state is cleared:
\* the store's token and user are null, isAuthenticated is false and both
\* stored tokens are removed.
C18_LoginTrueButCleared ==
  [][\A r \in Reqs : (caller[r] = "loginMe" /\ Rejected(events', r)) =>
       /\ LoginReturned(events', 1)
       /\ token' = Null /\ user' = Null
       /\ ~Truthy(token')
       /\ ~loading'
       /\ localStorage' = [token |-> Null, refresh_token |-> Null]]_vars

\* C18 witness: after a login answered with tokens, the fetch was answered
\* 500 and login() returned true with everything cleared.
C18_Witness ==
  /\ LoginReturned(events, 1)
  /\ \E r \in Reqs : Handled(events, r, ServerError) /\ Rejected(events, r)
  /\ returned[1] \in Tokens
  /\ token = Null /\ localStorage.token = Null

\* request r carries a current-user fetch
IsFetch(r) == caller[r] \in {"me", "loginMe"}
\* the task that produced log resolved request r to its caller
Resolved(log, r) == \E i \in DOMAIN log : log[i] = <<"settle", r, 1>>
\* the task that produced log ran getCurrentUser() to its normal end: it
\* returned to the application, or login() went on after it and returned true
GetCurrentUserReturned(log) ==
  AtAny(log, "getCurrentUser.return") # {} \/ LoginReturned(log, 1)

\* C19: getCurrentUser() never throws: when its fetch succeeds it sets user
\* to the fetched user and leaves the store's token unchanged; when its fetch
\* fails in any way it clears the authentication state (token and user null,
\* both stored tokens removed); in both cases it returns normally.
C19_GetCurrentUserNeverThrows ==
  [][\A r \in Reqs :
       /\ (IsFetch(r) /\ Resolved(events', r)) =>
            /\ GetCurrentUserReturned(events')
            /\ user' = events'[2][2]
            /\ token' = token
       /\ (IsFetch(r) /\ Rejected(events', r)) =>
            /\ GetCurrentUserReturned(events')
            /\ token' = Null /\ user' = Null
            /\ localStorage' = [token |-> Null, refresh_token |-> Null]]_vars

\* C19 witness: the fetch the store makes at creation succeeded as a retry
\* after a token refresh: user is set and the store's token is untouched.
C19_Witness ==
  /\ AtAny(events, "getCurrentUser.return") # {}
  /\ AnswerOk(events)
  /\ user = TheUser /\ token = 1
  /\ localStorage.token = 2

\* the task that produced log created the auth store
Created(log) == log # <<>> /\ log[1] = <<"create", 0, 0>>

\* C20: at creation the store's token is the value stored under 'token'
\* in local storage (null if absent), and in every state isAuthenticated is
\* true exactly when the store's token is not null.
C20_TokenFromStorage ==
  /\ [][Created(events') => token' = localStorage.token]_vars
  /\ [](isAuthenticated <=> token # Null)

\* a navigation completes in this step
Completed == pendingLocation # NoLocation /\ pendingLocation' = NoLocation

\* C21: no navigation completes on a route that requires authentication
\* (its own record or a parent's carrying meta.requiresAuth) while the auth
\* store is not authenticated.
C21_ProtectedNeedsAuth ==
  [][Completed /\ metaRequiresAuth(currentRoute') => Truthy(token')]_vars

\* C22: a signed-in user's navigation to /login is confirmed for the
\* Dashboard route after two redirects (/login -> /dashboard -> /) and, when
\* it completes, completes there.
C22_LoginToDashboard ==
  /\ [][Navigate("/login") /\ isAuthenticated =>
          /\ pendingLocation' = "/"
          /\ navigation'.redirects = 2]_vars
  /\ [][Completed /\ navigation.to = "/login" /\ navigation.auth =>
          /\ currentRoute' = "/"
          /\ matched(currentRoute')[1] = "Dashboard"]_vars
  /\ [](pendingLocation # Loop)

\* C22 witness: the navigation a signed-in user started to /login has
\* completed on the Dashboard route.
C22_Witness ==
  /\ navigation.to = "/login"
  /\ navigation.auth
  /\ pendingLocation = NoLocation
  /\ currentRoute = "/"

\* the task that produced log ended a verifyAccessKey call with false
VerifyFailed(log) == \E i \in DOMAIN log : log[i][1] = "return" /\ log[i][3] = 0
\* the task that produced log handled the status st of some call
Failed(log, st) == log # <<>> /\ log[1][1] = "recv" /\ log[1][3] = st

\* C23: a verification that fails, the key reported invalid or the call
\* thrown, returns false and leaves accessKey, isAuthenticated and the
\* stored 'access_key' as they were before the attempt was answered.
C23_FailedVerifyKeepsState ==
  [][\A c \in Calls :
       /\ calls[c].kind = "verify"
       /\ \/ VerifyAnswered(c, FALSE)
          \/ \E st \in KeyStatuses : CallFailed(c, st)
       => /\ <<"return", c, 0>> = trace'[Len(trace')]
          /\ accessKey' = accessKey
          /\ authenticated' = authenticated
          /\ storedKey' = storedKey]_vars

\* C24: the task that handles a 401 answer to call c rejects the caller
\* once with that same error, sends nothing, leaves the call settled and
\* 'access_key' absent; from then on, until a key is stored again, every
\* request leaves without an X-Access-Key header.
C24_UnauthorizedDropsKey ==
  /\ [][\A c \in Calls : trace' # <<>> /\ trace'[1] = <<"recv", c, Unauthorized>> =>
          /\ Cardinality(At(trace', "reject", c)) = 1
          /\ \A i \in At(trace', "reject", c) : trace'[i][3] = Unauthorized
          /\ At(trace', "resolve", c) = {}
          /\ AtAny(trace', "send") = {}
          /\ calls'[c] = NoCall
          /\ storedKey' = Null
          /\ keyless']_vars
  /\ [][keyless' => \A i \in AtAny(trace', "send") : trace'[i][3] = Null]_vars
  /\ [](keyless => storedKey = Null)

\* C24 witness: after a 401 removed the stored key, the store still holding
\* its accessKey, a request has been sent and carries no header.
C24_Witness ==
  /\ keyless
  /\ accessKey \in AccessKeys
  /\ \E c \in Calls : trace = <<<<"call", c, 0>>, <<"send", c, Null>>>>

\* a send has begun and not finished: suspended at its await or in flight
Sending == awaiting # <<>> \/ chatRequests # <<>>

\* a request waits on a refresh: as its initiator or in the queue
Waiting(r) == phase[r] \in {"awaitRefresh", "queued"}

\* C25: every request answered 401 settles towards its caller and the
\* refreshing flag returns to false, whatever the refresh endpoint answers.
\* Stated for the moment every HTTP call has received its answer, after
\* which no task is left that could settle anything: no request waits on a
\* refresh, no refresh call waits in the queue, and isRefreshing is false.
C25_AnsweredMeansSettled ==
  NothingInFlight =>
    /\ \A r \in Reqs : ~Waiting(r) /\ refreshOf[r] # "queued"
    /\ failedQueue = <<>>
    /\ ~isRefreshing

\* C26: each original request initiates at most one refresh call, so K
\* requests issue at most K refresh calls: a task sends a refresh call for o
\* at most once and only if o is not yet marked _retry, it marks o, and the
\* mark stays until o settles towards its caller.
C26_OneRefreshPerRequest ==
  [][\A o \in Reqs :
       /\ At(events', "sendRefresh", o) # {} =>
            /\ Cardinality(At(events', "sendRefresh", o)) = 1
            /\ ~retry[o]
            /\ retry'[o]
       /\ (retry[o] /\ ~retry'[o]) => At(events', "settle", o) # {}]_vars

\* C26 witness: a request that had initiated a refresh and was retried got
\* 401 again: it is rejected through handleError, no refresh call is sent.
C26_Witness ==
  \E o \in Reqs :
    /\ Handled(events, o, Unauthorized)
    /\ \E i \in DOMAIN events : events[i] = <<"ElMessage.error", 0, Unauthorized>>
    /\ AtAny(events, "sendRefresh") = {}
    /\ \E r \in Reqs : phase[r] = "inflight"

\* the state logout() leaves: the store without token, local storage with
\* neither 'token' nor 'refresh_token'
SignedOut ==
  /\ token = Null
  /\ localStorage.token = Null
  /\ localStorage.refresh_token = Null

\* C27: once logout() has been called local storage holds no access token
\* and no refresh token until the next successful login; the client on its
\* own never logs in, so a signed-out state keeps local storage empty.
C27_LogoutKeepsStorageEmpty ==
  [][SignedOut =>
       /\ localStorage'.token = Null
       /\ localStorage'.refresh_token = Null]_vars

\* C28: a 401 answer that starts a refresh attempt (the request is no login,
\* not yet retried, no refresh in progress) while no refresh token is stored
\* sends nothing over the network, removes the stored access token, rejects
\* the request, logs the auth store out and pushes /login, all in one task.
C28_NoRefreshTokenFailsLocally ==
  [][\A r \in Reqs :
       (/\ Handled(events', r, Unauthorized)
        /\ Fresh(r)
        /\ ~isRefreshing
        /\ ~Truthy(localStorage.refresh_token)) =>
         /\ Sends(events') = {}
         /\ At(events', "clearToken", 0) # {}
         /\ localStorage'.token = Null
         /\ \E i \in DOMAIN events' : events'[i] = <<"settle", r, 0>>
         /\ token' = Null /\ user' = Null
         /\ \E i \in AtAny(events', "router.push") :
              \E j \in 1..(i - 1) : events'[j] = <<"ElMessage.success", 0, 0>>
         /\ ~isRefreshing']_vars

\* C28 witness: with an access token but no refresh token stored, a request
\* was answered 401 and the task ended the session without a refresh call.
C28_Witness ==
  \E r \in Reqs :
    /\ Handled(events, r, Unauthorized)
    /\ AtAny(events, "router.push") # {}
    /\ At(events, "isRefreshing", r) # {}
    /\ localStorage.token = Null

\* the entries a queue holds
EntriesOf(q) == {q[i] : i \in DOMAIN q}

\* C29: every deferred that leaves the pending queue is settled exactly
\* once, resolved or rejected, in the task that removes it - also when the
\* refresh answers without error but with an empty or missing access token.
C29_QueueSettlesEveryEntry ==
  [][\A e \in Entries :
       (e \in EntriesOf(failedQueue) /\ e \notin EntriesOf(failedQueue')) =>
         Cardinality(At(events', "resolve", e) \cup At(events', "reject", e)) = 1]_vars

\* C30: at most one chat request is in flight in every reachable state, and
\* a sendMessage call that begins while an earlier send has not finished
\* appends no message and leads to no request.
C30_OneChatRequest ==
  /\ [](Len(chatRequests) + Len(awaiting) <= 1)
  /\ [][SendMessage /\ Sending =>
          /\ lastCall' = "ignored"
          /\ UNCHANGED <<messages, awaiting, chatRequests>>]_vars

\* C30 witness: while a chat request is in flight and the textarea holds a
\* new question, sendMessage was called again and ignored.
C30_Witness ==
  /\ Len(chatRequests) = 1
  /\ inputMessage \in Texts
  /\ lastCall = "ignored"

====
